---- MODULE Spec2Model ----
(***************************************************************************)
(* A model of cmdbtools.py: the HTTP adapter (requests.get and             *)
(* _requests_response), the credential store under ~/.cmdb, login, the     *)
(* single-shot variant query, the paged query generator and the VCF        *)
(* annotation pass.                                                        *)
(*                                                                         *)
(* Text is modelled character by character: a string is a sequence of      *)
(* one-character strings, so that rstrip, split, startswith, int, format   *)
(* and sorted are computed as Python computes them.                        *)
(*                                                                         *)
(* The remote server is the environment.  Each request is answered by a    *)
(* nondeterministic choice among a set of answers: an HTTP status with a   *)
(* JSON body, or no answer at all (host unreachable).  Bodies are always   *)
(* well-formed JSON: the eager json.load of line 87 is not made to fail.   *)
(***************************************************************************)
EXTENDS Integers, Sequences, FiniteSets, TLC

VARIABLES
    cmdb_dir,      \* TRUE iff the directory ~/.cmdb exists
    tokenstore,    \* the file ~/.cmdb/authaccess.yaml: [exists, doc]
    call,          \* the last command run by the client and what became of it
    granted,       \* history: token of the latest login whose canary got 201
    chain,         \* paged query: the envelopes the server holds, in page order
    url,           \* paged query: the cursor of _query_paged (0 is None)
    page_no,       \* paged query: page_no of _query_paged
    gen,           \* paged query: where the generator stands
    item,          \* paged query: index of the next element to yield
    cmdb_response_data, \* paged query: the envelope being yielded from
    yielded,       \* paged query: everything yielded so far, in order
    fetched,       \* paged query: the server's answer to each GET, in order
    infile,        \* annotate: the lines of the input file
    lineno,        \* annotate: number of input lines consumed
    stdout,        \* annotate: every sys.stdout.write so far, in order
    served,        \* annotate: per consumed line, the answer and the writes
    data_version,  \* annotate: the version read before the loop
    pass,          \* annotate: "idle", "running", "done" or "raised"
    started_with   \* annotate, history: the record file as found at the start

vars == << cmdb_dir, tokenstore, call, granted,
           chain, url, page_no, gen, item, cmdb_response_data, yielded, fetched,
           infile, lineno, stdout, served, data_version, pass, started_with >>

clientVars == << cmdb_dir, tokenstore, call, granted >>
pagedVars == << chain, url, page_no, gen, item, cmdb_response_data, yielded, fetched >>
annotateVars == << infile, lineno, stdout, served, data_version, pass, started_with >>

----------------------------------------------------------------------------
(* Python values                                                           *)

\* A key that a mapping does not hold.
NoKey == "<absent>"

\* JSON bodies: null, a list of variant records, or an object that may hold
\* the key "error".
JNull == [t |-> "null", items |-> << >>, error |-> NoKey]
JList(items) == [t |-> "list", items |-> items, error |-> NoKey]
JObj(err) == [t |-> "obj", items |-> << >>, error |-> err]

\* What a call comes to: a returned value or a raised exception.
Return(v) == [kind |-> "return", value |-> v, exc |-> "", message |-> ""]
Raise(e, m) == [kind |-> "raise", value |-> JNull, exc |-> e, message |-> m]

CMDB_DATASET_VERSION == "CMDB_hg19_v1.0"

----------------------------------------------------------------------------
(* Text: a string is a sequence of one-character strings                   *)

\* The characters of the model in increasing code-point order; Python
\* compares strings by code point.
Charset ==
    <<"\t", "\n", "\f", "\r", " ", "#", "+", "-", ".", "/", "0", "1", "2", "3", "4", "5", "6", "7", "8", "9", ";", "<", "=", ">", "A", "B", "C", "D", "E", "F", "G", "H", "I", "J", "K", "L", "M", "N", "O", "P", "Q", "R", "S", "T", "U", "V", "W", "X", "Y", "Z", "_", "a", "b", "c", "d", "e", "f", "g", "h", "i", "j", "k", "l", "m", "n", "o", "p", "q", "r", "s", "t", "u", "v", "w", "x", "y", "z">>

Ord(c) == CHOOSE i \in 1..Len(Charset) : Charset[i] = c

\* The characters str.rstrip() and str.split() take for whitespace (the
\* vertical tab, which no line of the model holds, is left out).
Whitespace == {" ", "\t", "\n", "\r", "\f"}

Digits == <<"0", "1", "2", "3", "4", "5", "6", "7", "8", "9">>

\* a < b on Python strings.
RECURSIVE StrLess(_, _)
StrLess(a, b) ==
    IF b = << >> THEN FALSE
    ELSE IF a = << >> THEN TRUE
    ELSE IF Head(a) = Head(b) THEN StrLess(Tail(a), Tail(b))
    ELSE Ord(Head(a)) < Ord(Head(b))

\* A strip that removes line feeds only.
RECURSIVE rstrip_newline(_)
rstrip_newline(s) ==
    IF s # << >> /\ s[Len(s)] = "\n"
    THEN rstrip_newline(SubSeq(s, 1, Len(s) - 1))
    ELSE s

\* s.rstrip()
RECURSIVE rstrip(_)
rstrip(s) ==
    IF s # << >> /\ s[Len(s)] \in Whitespace
    THEN rstrip(SubSeq(s, 1, Len(s) - 1))
    ELSE s

\* s.startswith(prefix)
startswith(s, prefix) ==
    Len(prefix) <= Len(s) /\ SubSeq(s, 1, Len(prefix)) = prefix

\* The k-th smallest member of a set of positions.
Nth(positions, k) ==
    CHOOSE p \in positions : Cardinality({q \in positions : q < p}) = k - 1

\* s.split(): the runs of non-whitespace characters, in order.
split(s) ==
    LET starts == {i \in 1..Len(s) :
                      s[i] \notin Whitespace /\ (i = 1 \/ s[i - 1] \in Whitespace)}
        EndOf(i) == CHOOSE j \in i..Len(s) :
                        /\ \A m \in i..j : s[m] \notin Whitespace
                        /\ (j = Len(s) \/ s[j + 1] \in Whitespace)
    IN [k \in 1..Cardinality(starts) |->
           SubSeq(s, Nth(starts, k), EndOf(Nth(starts, k)))]

\* s.split(sep) for a one-character separator: the pieces between the
\* separators, empty pieces kept.
split_sep(s, sep) ==
    LET at == {i \in 1..Len(s) : s[i] = sep}
        n == Cardinality(at)
        Cut(k) == IF k = 0 THEN 0 ELSE IF k = n + 1 THEN Len(s) + 1 ELSE Nth(at, k)
    IN [k \in 1..(n + 1) |-> SubSeq(s, Cut(k - 1) + 1, Cut(k) - 1)]

\* sep.join(pieces)
RECURSIVE join(_, _)
join(sep, pieces) ==
    IF pieces = << >> THEN << >>
    ELSE IF Len(pieces) = 1 THEN pieces[1]
    ELSE pieces[1] \o << sep >> \o join(sep, Tail(pieces))

\* int(s) succeeds: an optional sign and at least one decimal digit.
int_ok(s) ==
    LET digits == IF s # << >> /\ Head(s) \in {"+", "-"} THEN Tail(s) ELSE s IN
    /\ digits # << >>
    /\ \A i \in 1..Len(digits) : \E d \in 1..10 : Digits[d] = digits[i]

DigitValue(c) == (CHOOSE d \in 1..10 : Digits[d] = c) - 1

RECURSIVE NatOf(_)
NatOf(digits) ==
    IF digits = << >> THEN 0
    ELSE 10 * NatOf(SubSeq(digits, 1, Len(digits) - 1)) + DigitValue(digits[Len(digits)])

\* int(s) where int_ok(s).
int(s) ==
    IF Head(s) = "-" THEN 0 - NatOf(Tail(s))
    ELSE IF Head(s) = "+" THEN NatOf(Tail(s))
    ELSE NatOf(s)

RECURSIVE NatStr(_)
NatStr(n) ==
    IF n < 10 THEN << Digits[n + 1] >>
    ELSE NatStr(n \div 10) \o << Digits[(n % 10) + 1] >>

\* '{}'.format(n) for an integer n.
str(n) == IF n < 0 THEN << "-" >> \o NatStr(0 - n) ELSE NatStr(n)

\* The keys sorted the wrong way round.
RECURSIVE sorted_descending(_)
sorted_descending(keys) ==
    IF keys = {} THEN << >>
    ELSE LET k == CHOOSE x \in keys : \A o \in keys \ {x} : StrLess(o, x)
         IN << k >> \o sorted_descending(keys \ {k})

\* sorted(keys) for a set of distinct strings.
RECURSIVE sorted(_)
sorted(keys) ==
    IF keys = {} THEN << >>
    ELSE LET k == CHOOSE x \in keys : \A o \in keys \ {x} : StrLess(x, o)
         IN << k >> \o sorted(keys \ {k})

\* '{}'.format(v) for a JSON scalar.
format(v) == IF v.t = "int" THEN str(v.n) ELSE v.s

----------------------------------------------------------------------------
(* The server's answers                                                    *)

Statuses == {200, 201, 400, 403, 404, 500}

Unreachable == [kind |-> "unreachable", status |-> 0, body |-> JNull]
Http(s, b) == [kind |-> "http", status |-> s, body |-> b]
NoAnswer == [kind |-> "none", status |-> 0, body |-> JNull]

----------------------------------------------------------------------------
(* HTTP adapter                                                            *)

\* urllib2.urlopen: a response for 2xx, HTTPError for any other status,
\* URLError when there is no exchange at all.
urlopen(answer) ==
    IF answer.kind = "unreachable"
    THEN [exc |-> "URLError", code |-> 0, fp |-> JNull]
    ELSE IF answer.status >= 200 /\ answer.status < 300
         THEN [exc |-> "", code |-> answer.status, fp |-> answer.body]
         ELSE [exc |-> "HTTPError", code |-> answer.status, fp |-> answer.body]

\* _requests_response.__init__: response is None when has = FALSE.
requests_response(has, response) ==
    IF has
    THEN [exc |-> "", status_code |-> response.code, json |-> response.fp]
    ELSE [exc |-> "", status_code |-> 404, json |-> JNull]

\* requests.get: HTTPError is swallowed and response becomes None; URLError
\* is not caught and leaves the call.
requests_get(answer) ==
    LET response == urlopen(answer) IN
    IF response.exc = "HTTPError" THEN requests_response(FALSE, response)
    ELSE IF response.exc = "URLError"
         THEN [exc |-> "URLError", status_code |-> 0, json |-> JNull]
         ELSE requests_response(TRUE, response)

\* cmdb_response.raise_for_status(): _requests_response defines no such
\* method, so the attribute lookup raises AttributeError.
raise_for_status == Raise("AttributeError", "raise_for_status")

\* cmdb_response.json().get('error', 'Failed to query data.')
json_get_error(json) ==
    IF json.t = "obj"
    THEN Raise("CMDBException",
               IF json.error = NoKey THEN "Failed to query data." ELSE json.error)
    ELSE Raise("AttributeError", "get")

----------------------------------------------------------------------------
(* Credential store                                                        *)

\* An access_token value that is not a string (a number, a list, ...).
NotAString == "<not a string>"

\* What yaml.load gives for the file: None for an empty file, or a mapping.
YNull == [t |-> "null", access_token |-> NoKey, version |-> NoKey]
YMap(tok, ver) == [t |-> "map", access_token |-> tok, version |-> ver]

NoFile == [exists |-> FALSE, doc |-> YNull]
File(doc) == [exists |-> TRUE, doc |-> doc]

authaccess_exists(store) == store.exists

\* create_tokenstore: mkdir if the directory is missing, then create the
\* file empty if it is missing.  Gives the new directory flag and file.
create_tokenstore(dir, store) ==
    [dir |-> TRUE, store |-> IF store.exists THEN store ELSE File(YNull)]

\* read_tokenstore: the mapping, or the exception the read ends in.
read_tokenstore(store) ==
    IF ~store.exists THEN Raise("IOError", "No such file or directory")
    ELSE IF store.doc.t = "null" THEN Raise("AttributeError", "get")
    ELSE IF store.doc.access_token = NoKey \/ store.doc.access_token = NotAString
         THEN Raise("CMDBException",
                    "Invalid or outdated access token. You may need to run login.")
         ELSE Return(store.doc)

\* write_tokenstore: open(..., 'w') truncates or creates the file, then the
\* mapping is dumped into it.
write_tokenstore(token) ==
    File(YMap(token, CMDB_DATASET_VERSION))

\* open(file_path, 'w') fails with IOError when the directory is missing.
can_open_for_write(dir) == dir

----------------------------------------------------------------------------
(* login                                                                   *)

\* A login that writes the record only when it has just created the file.
login_write_once(token, answer, dir, store) ==
    LET cmdb_response == requests_get(answer) IN
    IF cmdb_response.exc # ""
    THEN [outcome |-> Raise(cmdb_response.exc, ""), dir |-> dir, store |-> store]
    ELSE IF cmdb_response.status_code # 201
    THEN [outcome |-> Raise("CMDBException", ""), dir |-> dir, store |-> store]
    ELSE IF authaccess_exists(store)
    THEN [outcome |-> Return(JNull), dir |-> dir, store |-> store]
    ELSE [outcome |-> Return(JNull), dir |-> TRUE, store |-> write_tokenstore(token)]

\* A login that prepares the store before it looks at the canary's status.
login_create_first(token, answer, dir, store) ==
    LET cmdb_response == requests_get(answer)
        made == IF ~authaccess_exists(store)
                THEN create_tokenstore(dir, store)
                ELSE [dir |-> dir, store |-> store]
    IN IF cmdb_response.exc # ""
       THEN [outcome |-> Raise(cmdb_response.exc, ""), dir |-> dir, store |-> store]
       ELSE IF cmdb_response.status_code # 201
       THEN [outcome |-> Raise("CMDBException", ""),
             dir |-> made.dir, store |-> made.store]
       ELSE [outcome |-> Return(JNull), dir |-> made.dir,
             store |-> write_tokenstore(token)]

\* login(token) against a server that answers the canary query with answer:
\* the outcome and the store it leaves.
login(token, answer, dir, store) ==
    LET cmdb_response == requests_get(answer) IN
    IF cmdb_response.exc # ""
    THEN [outcome |-> Raise(cmdb_response.exc, ""), dir |-> dir, store |-> store]
    ELSE IF cmdb_response.status_code # 201
    THEN [outcome |-> Raise("CMDBException",
                            "Error while obtaining your token with CMDB API authentication server."),
          dir |-> dir, store |-> store]
    ELSE LET made == IF ~authaccess_exists(store)
                     THEN create_tokenstore(dir, store)
                     ELSE [dir |-> dir, store |-> store]
         IN IF ~can_open_for_write(made.dir)
            THEN [outcome |-> Raise("IOError", "No such file or directory"),
                  dir |-> made.dir, store |-> made.store]
            ELSE [outcome |-> Return(JNull), dir |-> made.dir,
                  store |-> write_tokenstore(token)]

----------------------------------------------------------------------------
(* Single-shot query                                                       *)

\* _query_nonpaged(token, url), given the response requests.get gave.
query_nonpaged(cmdb_response) ==
    IF cmdb_response.exc # "" THEN Raise(cmdb_response.exc, "")
    ELSE IF cmdb_response.status_code # 201
    THEN IF cmdb_response.status_code = 403
         THEN json_get_error(cmdb_response.json)
         ELSE IF cmdb_response.status_code = 404
              THEN Return(cmdb_response.json)
              ELSE raise_for_status
    ELSE Return(cmdb_response.json)

\* An optional command-line argument: << >> is None, << v >> is v.
NoneArg == << >>
Some(v) == << v >>

\* query_variant(chromosome, position) up to the request: "skip" when no
\* credential file exists (a message is printed and None returned), "raise"
\* when the store cannot be read or an argument is missing, else "send"
\* with the token that goes on the URL.
query_variant_prepare(store, chromosome, position) ==
    IF ~authaccess_exists(store)
    THEN [step |-> "skip", outcome |-> Return(JNull), token |-> NoKey]
    ELSE LET tokens == read_tokenstore(store) IN
         IF tokens.kind = "raise"
         THEN [step |-> "raise", outcome |-> tokens, token |-> NoKey]
         ELSE IF chromosome = NoneArg \/ position = NoneArg
         THEN [step |-> "raise",
               outcome |-> Raise("CMDBException",
                                 "Provide both -c,--chromosome and -p,--position."),
               token |-> NoKey]
         ELSE [step |-> "send", outcome |-> Return(JNull),
               token |-> tokens.value.access_token]

\* query_variant(chromosome, position) with the server's answer to the one
\* request it may send.
query_variant(store, chromosome, position, answer) ==
    LET pre == query_variant_prepare(store, chromosome, position) IN
    IF pre.step = "send" THEN query_nonpaged(requests_get(answer))
    ELSE pre.outcome

\* print_access_token(): what it prints and how it ends.
print_access_token(store) ==
    LET tokens == read_tokenstore(store) IN
    IF tokens.kind = "raise"
    THEN [outcome |-> tokens, printed |-> ""]
    ELSE [outcome |-> Return(JNull), printed |-> tokens.value.access_token]

\* The process exit status Python gives: 0 when the script runs to its end,
\* 1 when an exception leaves it.
EXIT_OK == 0
EXIT_TRACEBACK == 1

\* The command dispatch under __main__: a CMDBException is caught and its
\* message printed, after which the script runs to its end; any other
\* exception leaves the script.  printed is what the command had printed.
main(outcome, printed) ==
    IF outcome.kind = "raise"
    THEN IF outcome.exc = "CMDBException"
         THEN [exit |-> EXIT_OK, printed |-> outcome.message]
         ELSE [exit |-> EXIT_TRACEBACK, printed |-> printed]
    ELSE [exit |-> EXIT_OK, printed |-> printed]

----------------------------------------------------------------------------
(* The inputs of the client commands                                       *)

Tokens == {"tokA", "tokB"}

\* A JSON scalar: an integer, or a value whose text form is given (a string,
\* or a float by its str()).
JInt(n) == [t |-> "int", n |-> n, s |-> << >>]
JText(s) == [t |-> "text", n |-> 0, s |-> s]

Variant(an, ac, af, fs) ==
    [allele_num |-> an, allele_count |-> ac, allele_freq |-> af, filter_status |-> fs]

Variants ==
    { Variant(JInt(100), JInt(5), JText(<<"0", ".", "0", "5">>), JInt(0)),
      Variant(JInt(20), JInt(7), JText(<<"0", ".", "3", "5">>),
              JText(<<"P", "A", "S", "S">>)) }

ErrorBodies == {JObj(NoKey), JObj("Forbidden token")}

\* Every answer the server may give to a variant lookup.
Answers ==
    {Unreachable}
    \cup {Http(s, JList(<< v >>)) : s \in {200, 201}, v \in Variants}
    \cup {Http(s, b) : s \in Statuses \ {200, 201}, b \in ErrorBodies}

\* The states the store may be in when a command starts: nothing, a bare
\* directory, a file just created, or a record written by some login.
Stores ==
    {[dir |-> FALSE, store |-> NoFile], [dir |-> TRUE, store |-> NoFile],
     [dir |-> TRUE, store |-> File(YNull)]}
    \cup {[dir |-> TRUE, store |-> File(YMap(t, CMDB_DATASET_VERSION))] : t \in Tokens}
    \cup {[dir |-> TRUE, store |-> File(YMap(t, NoKey))] : t \in {NoKey, NotAString}}

NoResponse == [exc |-> "", status_code |-> 0, json |-> JNull]

NoCall ==
    [op |-> "none", token |-> NoKey, chromosome |-> NoneArg, position |-> NoneArg,
     sent |-> 0, answer |-> NoAnswer, response |-> NoResponse,
     outcome |-> Return(JNull), overwrote |-> FALSE,
     before |-> [dir |-> FALSE, store |-> NoFile],
     exit |-> EXIT_OK, printed |-> ""]

----------------------------------------------------------------------------
(* Paged query: envelopes and generator positions                          *)

MaxPages == 2
MaxData == 2
MaxMeta == 1

\* A page envelope.  next is the number of the page the cursor leads to, 0
\* for null; has_next is FALSE when the envelope holds no "next" key at all.
Envelope(fmt, k, nmeta, ndata, has_next, next) ==
    [format |-> fmt,
     meta |-> [i \in 1..nmeta |-> << "meta", k, i >>],
     header |-> << "header", k, 0 >>,
     data |-> [i \in 1..ndata |-> << "data", k, i >>],
     has_next |-> has_next,
     next |-> next]

NoEnvelope == Envelope("", 0, 0, 0, FALSE, 0)

\* The chains of n pages: every page but the last points to its successor,
\* the last one has next null or has no next key.
Chains(n) ==
    { [k \in 1..n |->
          Envelope(fmt[k], k, nmeta, ndata[k],
                   IF k = n THEN last_has_next ELSE TRUE,
                   IF k = n THEN 0 ELSE k + 1)] :
      fmt \in [1..n -> {"vcf", "json"}], nmeta \in 0..MaxMeta,
      ndata \in [1..n -> 0..MaxData], last_has_next \in BOOLEAN }

\* Where the generator stands: at the loop test, yielding meta lines,
\* yielding data items, exhausted (StopIteration) or ended by an exception.
At(where) == [at |-> where, exc |-> "", message |-> ""]
Raised(outcome) == [at |-> "raised", exc |-> outcome.exc, message |-> outcome.message]

\* What the server may answer to the GET of page k.
PagedAnswers(k) ==
    {Unreachable, Http(200, chain[k])}
    \cup {Http(s, b) : s \in {201, 400, 404, 500}, b \in ErrorBodies}

----------------------------------------------------------------------------
(* annotate: one input line                                                *)

CMDB_AN == <<"C", "M", "D", "B", "_", "A", "N">>
CMDB_AC == <<"C", "M", "D", "B", "_", "A", "C">>
CMDB_AF == <<"C", "M", "D", "B", "_", "A", "F">>
CMDB_FILTER == <<"C", "M", "D", "B", "_", "F", "I", "L", "T", "E", "R">>

\* A classification that takes every other line starting with # for the
\* column header.
line_kind_else_header(in_line) ==
    IF startswith(in_line, <<"#">>)
    THEN IF startswith(in_line, <<"#", "#">>) THEN "meta" ELSE "header"
    ELSE "data"

\* Lines 271-283: what the loop body takes the line for.  A line that starts
\* with # but with neither ## nor #CHROM is skipped by the continue.
line_kind(in_line) ==
    IF startswith(in_line, <<"#">>)
    THEN IF startswith(in_line, <<"#", "#">>) THEN "meta"
         ELSE IF startswith(in_line, <<"#", "C", "H", "R", "O", "M">>) THEN "header"
         ELSE "skip"
    ELSE "data"

\* '{}\n'.format(in_line.rstrip())
stripped_line(in_line) == rstrip(in_line) \o << "\n" >>

\* The four declarations naming the version this release writes into the
\* record, whatever version the record holds.
info_declarations_own_version(version) ==
    << << "#", "#", "INFO=<ID=", "CMDB_AN", ",Number=1,Type=Integer,Description=\"Number of Alleles in Samples with Coverage from ", CMDB_DATASET_VERSION, "\">", "\n" >>,
       << "#", "#", "INFO=<ID=", "CMDB_AC", ",Number=A,Type=Integer,Description=\"Alternate Allele Counts in Samples with Coverage from ", CMDB_DATASET_VERSION, "\">", "\n" >>,
       << "#", "#", "INFO=<ID=", "CMDB_AF", ",Number=A,Type=Float,Description=\"Alternate Allele Frequencies from ", CMDB_DATASET_VERSION, "\">", "\n" >>,
       << "#", "#", "INFO=<ID=", "CMDB_FILTER", ",Number=A,Type=Float,Description=\"Filter from ", CMDB_DATASET_VERSION, "\">", "\n" >> >>

\* Lines 277-280: the four ##INFO declarations.  After the leading ## each
\* is kept in pieces: the opening, the ID, the fixed text up to the version,
\* the version, the closing and the line feed.
info_declarations(version) ==
    << << "#", "#", "INFO=<ID=", "CMDB_AN", ",Number=1,Type=Integer,Description=\"Number of Alleles in Samples with Coverage from ", version, "\">", "\n" >>,
       << "#", "#", "INFO=<ID=", "CMDB_AC", ",Number=A,Type=Integer,Description=\"Alternate Allele Counts in Samples with Coverage from ", version, "\">", "\n" >>,
       << "#", "#", "INFO=<ID=", "CMDB_AF", ",Number=A,Type=Float,Description=\"Alternate Allele Frequencies from ", version, "\">", "\n" >>,
       << "#", "#", "INFO=<ID=", "CMDB_FILTER", ",Number=A,Type=Float,Description=\"Filter from ", version, "\">", "\n" >> >>

\* Line 285: in_line.rstrip().split()[0:8]
in_fields_of(in_line) ==
    LET all == split(rstrip(in_line)) IN
    IF Len(all) > 8 THEN SubSeq(all, 1, 8) ELSE all

\* Lines 286-290: the exception the subscripts and int() end in, if any.
\* Fields are numbered from 1 here, from 0 in the source.
fields_failure(in_fields) ==
    IF Len(in_fields) < 2 THEN "IndexError"
    ELSE IF ~int_ok(in_fields[2]) THEN "ValueError"
    ELSE IF Len(in_fields) < 8 THEN "IndexError"
    ELSE ""

\* Lines 297-302: the dict of the four annotation tokens.
annotation_info(variant) ==
    (CMDB_AN :> (CMDB_AN \o << "=" >> \o format(variant.allele_num)))
    @@ (CMDB_AC :> (CMDB_AC \o << "=" >> \o format(variant.allele_count)))
    @@ (CMDB_AF :> (CMDB_AF \o << "=" >> \o format(variant.allele_freq)))
    @@ (CMDB_FILTER :> (CMDB_FILTER \o << "=" >> \o format(variant.filter_status)))

\* A merge in which a token of the input INFO replaces the token held under
\* its key.
RECURSIVE merge_info_input_wins(_, _)
merge_info_input_wins(new_info, tokens) ==
    IF tokens = << >> THEN new_info
    ELSE LET c == Head(tokens)
             k == split_sep(c, "=")[1]
         IN merge_info_input_wins(IF k \in DOMAIN new_info
                                  THEN [new_info EXCEPT ![k] = c]
                                  ELSE new_info @@ (k :> c),
                                  Tail(tokens))

\* Lines 305-308: the tokens of the input INFO are added in order, a token
\* whose key is already held is dropped.
RECURSIVE merge_info(_, _)
merge_info(new_info, tokens) ==
    IF tokens = << >> THEN new_info
    ELSE LET c == Head(tokens)
             k == split_sep(c, "=")[1]
         IN merge_info(IF k \in DOMAIN new_info THEN new_info
                       ELSE new_info @@ (k :> c),
                       Tail(tokens))

\* A line written with the four annotation tokens put behind the INFO the
\* input held, nothing dropped and nothing sorted.
annotated_line_appending(in_fields, variant) ==
    LET built == annotation_info(variant)
        added == join(";", << built[CMDB_AN], built[CMDB_AC], built[CMDB_AF],
                             built[CMDB_FILTER] >>)
        new == IF in_fields[8] # <<".">>
               THEN in_fields[8] \o << ";" >> \o added
               ELSE added
        columns == << in_fields[1], str(int(in_fields[2])), in_fields[3],
                      in_fields[4], in_fields[5], in_fields[6], in_fields[7], new >>
    IN join("\t", columns) \o << "\n" >>

\* Lines 297-319: the line written for a matched record.
annotated_line(in_fields, variant) ==
    LET chromosome == in_fields[1]
        position == int(in_fields[2])
        ref == in_fields[4]
        alt == in_fields[5]
        info == in_fields[8]
        new_info == IF info # <<".">>
                    THEN merge_info(annotation_info(variant), split_sep(info, ";"))
                    ELSE annotation_info(variant)
        keys == sorted(DOMAIN new_info)
        new == join(";", [i \in 1..Len(keys) |-> new_info[keys[i]]])
        columns == << chromosome, str(position), in_fields[3], ref, alt,
                      in_fields[6], in_fields[7], new >>
    IN IF Len(in_fields) > 8
       THEN join("\t", Append(columns, in_fields[9])) \o << "\n" >>
       ELSE join("\t", columns) \o << "\n" >>

\* What annotate notes down for a consumed line.
Served(kind, sent, token, chromosome, position, answer, wrote, exc) ==
    [kind |-> kind, sent |-> sent, token |-> token, chromosome |-> chromosome,
     position |-> position, answer |-> answer, wrote |-> wrote, exc |-> exc]

\* A data line looked up one position before its own (positions taken as
\* counted from 0).
annotate_data_zero_based(in_line, store, answer) ==
    LET in_fields == in_fields_of(in_line)
        failure == fields_failure(in_fields)
    IN IF failure # ""
       THEN Served("data", FALSE, NoKey, << >>, 0, NoAnswer, << >>, failure)
       ELSE
       LET chromosome == in_fields[1]
           position == int(in_fields[2]) - 1
           pre == query_variant_prepare(store, Some(chromosome), Some(position))
           sent == pre.step = "send"
           cmdb_variant == query_variant(store, Some(chromosome), Some(position), answer)
           asked == IF sent THEN answer ELSE NoAnswer
       IN IF cmdb_variant.kind = "raise"
          THEN Served("data", sent, pre.token, chromosome, position, asked, << >>,
                      cmdb_variant.exc)
          ELSE IF cmdb_variant.value.t # "list" \/ cmdb_variant.value.items = << >>
          THEN Served("data", sent, pre.token, chromosome, position, asked,
                      << stripped_line(in_line) >>, "")
          ELSE Served("data", sent, pre.token, chromosome, position, asked,
                      << annotated_line(in_fields, cmdb_variant.value.items[1]) >>, "")

\* A data line looked up as soon as its first two fields are read, before
\* the other columns are.
annotate_data_lookup_first(in_line, store, answer) ==
    LET in_fields == in_fields_of(in_line)
        failure == fields_failure(in_fields)
    IN IF Len(in_fields) < 2 \/ ~int_ok(in_fields[2])
       THEN Served("data", FALSE, NoKey, << >>, 0, NoAnswer, << >>, failure)
       ELSE
       LET chromosome == in_fields[1]
           position == int(in_fields[2])
           pre == query_variant_prepare(store, Some(chromosome), Some(position))
           sent == pre.step = "send"
           cmdb_variant == query_variant(store, Some(chromosome), Some(position), answer)
           asked == IF sent THEN answer ELSE NoAnswer
       IN IF cmdb_variant.kind = "raise"
          THEN Served("data", sent, pre.token, chromosome, position, asked, << >>,
                      cmdb_variant.exc)
          ELSE IF failure # ""
          THEN Served("data", sent, pre.token, chromosome, position, asked, << >>,
                      failure)
          ELSE IF cmdb_variant.value.t # "list" \/ cmdb_variant.value.items = << >>
          THEN Served("data", sent, pre.token, chromosome, position, asked,
                      << stripped_line(in_line) >>, "")
          ELSE Served("data", sent, pre.token, chromosome, position, asked,
                      << annotated_line(in_fields, cmdb_variant.value.items[1]) >>, "")

\* Lines 285-319: a data line, the server answering answer if asked.
annotate_data(in_line, store, answer) ==
    LET in_fields == in_fields_of(in_line)
        failure == fields_failure(in_fields)
    IN IF failure # ""
       THEN Served("data", FALSE, NoKey, << >>, 0, NoAnswer, << >>, failure)
       ELSE
       LET chromosome == in_fields[1]
           position == int(in_fields[2])
           pre == query_variant_prepare(store, Some(chromosome), Some(position))
           sent == pre.step = "send"
           cmdb_variant == query_variant(store, Some(chromosome), Some(position), answer)
           asked == IF sent THEN answer ELSE NoAnswer
       IN IF cmdb_variant.kind = "raise"
          THEN Served("data", sent, pre.token, chromosome, position, asked, << >>,
                      cmdb_variant.exc)
          ELSE IF cmdb_variant.value.t = "null"
          THEN Served("data", sent, pre.token, chromosome, position, asked,
                      << stripped_line(in_line) >>, "")
          ELSE IF cmdb_variant.value.t = "obj"
          THEN Served("data", sent, pre.token, chromosome, position, asked, << >>,
                      "KeyError")
          ELSE IF cmdb_variant.value.items = << >>
          THEN Served("data", sent, pre.token, chromosome, position, asked, << >>,
                      "IndexError")
          ELSE Served("data", sent, pre.token, chromosome, position, asked,
                      << annotated_line(in_fields, cmdb_variant.value.items[1]) >>, "")

\* Lines 269-319: one turn of the loop over the input lines.
annotate_line(in_line, store, version, answer) ==
    LET kind == line_kind(in_line) IN
    IF kind = "meta"
    THEN Served(kind, FALSE, NoKey, << >>, 0, NoAnswer, << stripped_line(in_line) >>, "")
    ELSE IF kind = "header"
    THEN Served(kind, FALSE, NoKey, << >>, 0, NoAnswer,
                Append(info_declarations(version), stripped_line(in_line)), "")
    ELSE IF kind = "skip"
    THEN Served(kind, FALSE, NoKey, << >>, 0, NoAnswer, << >>, "")
    ELSE annotate_data(in_line, store, answer)

\* The turn for this line sends a request to the server.
sends_query(in_line, store) ==
    /\ line_kind(in_line) = "data"
    /\ fields_failure(in_fields_of(in_line)) = ""
    /\ query_variant_prepare(store, Some(<< >>), Some(0)).step = "send"

\* load_version(): the version of the stored record, None when no file
\* exists, or the exception the read ends in.
load_version(store) ==
    IF ~authaccess_exists(store) THEN Return(NoKey)
    ELSE LET tokens == read_tokenstore(store) IN
         IF tokens.kind = "raise" THEN tokens
         ELSE IF tokens.value.version = NoKey THEN Raise("KeyError", "version")
         ELSE Return(tokens.value.version)

----------------------------------------------------------------------------
(* annotate: the input files and the answers                               *)

MaxLines == 2

Lines ==
    { <<"#", "#", "m", "\n">>,
      <<"#", "C", "H", "R", "O", "M", "\t", "P", "\n">>,
      <<"#", "x", "\n">>,
      <<"1", "\t", "7", "\t", ".", "\t", "A", "\t", "T", "\t", ".", "\t", ".", "\t", "D", "P", "=", "1", "\n">>,
      <<"1", "\t", "7", "\t", ".", "\t", "A", "\t", "T", "\t", ".", "\t", ".", "\t", ".", "\r", "\n">>,
      <<"1", "\t", "7", "\t", ".", "\t", "A", "\t", "T", "\t", ".", "\t", ".", "\t", "b", "=", "2", ";", "a", ";", "C", "M", "D", "B", "_", "A", "F", "=", "9", ";", "b", "=", "3", "\t", "G", "T", "\t", "0", "/", "1", "\n">>,
      <<"1", "\t", "7", "\t", ".", "\t", "A", "\t", "T", "\t", ".", "\t", ".", "\t", "D", "P", "=", "1">>,
      <<"1", "\t", "7", "\t", ".", "\n">>,
      <<"1", " ", "0", "7", " ", ".", " ", "A", " ", "T", " ", ".", " ", ".", " ", "Z", "=", "1", ";", "A", "=", "1", "\n">>,
      <<"\n">> }

\* The lines a file iterator gives: each but the last ends with a line feed.
Files ==
    UNION { { f \in [1..n -> Lines] :
                \A i \in 1..(n - 1) : f[i][Len(f[i])] = "\n" } : n \in 0..MaxLines }

AnnotateAnswers ==
    {Unreachable}
    \cup {Http(201, JList(<< v >>)) : v \in Variants}
    \cup {Http(200, JList(<< v >>)) : v \in Variants}
    \cup {Http(s, JObj("Forbidden token")) : s \in {403, 404}}

\* A version an earlier release wrote into the record.
EARLIER_DATASET_VERSION == "CMDB_hg19_v0.9"

AnnotateStores ==
    {NoFile, File(YMap("tokA", CMDB_DATASET_VERSION)),
     File(YMap("tokA", EARLIER_DATASET_VERSION))}

----------------------------------------------------------------------------
(* Idle values of the parts a specification does not run                   *)

PagedIdle ==
    /\ chain = << >>
    /\ url = 0
    /\ page_no = 0
    /\ gen = At("idle")
    /\ item = 0
    /\ cmdb_response_data = NoEnvelope
    /\ yielded = << >>
    /\ fetched = << >>

AnnotateIdle ==
    /\ infile = << >>
    /\ lineno = 0
    /\ stdout = << >>
    /\ served = << >>
    /\ data_version = NoKey
    /\ pass = "idle"
    /\ started_with = NoFile

ClientIdle ==
    /\ call = NoCall
    /\ granted = NoKey

----------------------------------------------------------------------------
(* The client: commands run one after another against the store            *)

InitClient ==
    /\ \E s \in Stores : cmdb_dir = s.dir /\ tokenstore = s.store
    /\ ClientIdle
    /\ PagedIdle
    /\ AnnotateIdle

\* The command login -k token.
Login ==
    \E token \in Tokens, answer \in Answers :
        LET r == login(token, answer, cmdb_dir, tokenstore) IN
        /\ cmdb_dir' = r.dir
        /\ tokenstore' = r.store
        /\ call' = [NoCall EXCEPT !.op = "login", !.token = token, !.sent = 1,
                       !.answer = answer, !.response = requests_get(answer),
                       !.outcome = r.outcome,
                       !.overwrote = /\ tokenstore.exists
                                     /\ tokenstore.doc.access_token # token,
                       !.before = [dir |-> cmdb_dir, store |-> tokenstore],
                       !.exit = main(r.outcome, "").exit,
                       !.printed = main(r.outcome, "").printed]
        /\ granted' = IF answer.kind = "http" /\ answer.status = 201
                      THEN token ELSE granted
        /\ UNCHANGED << pagedVars, annotateVars >>

\* The command query-variant -c chromosome -p position.
QueryVariant ==
    \E chromosome \in {NoneArg, Some("chr17")}, position \in {NoneArg, Some(41234470)} :
        LET pre == query_variant_prepare(tokenstore, chromosome, position) IN
        \E answer \in (IF pre.step = "send" THEN Answers ELSE {NoAnswer}) :
            LET outcome == query_variant(tokenstore, chromosome, position, answer)
                printed == IF pre.step = "skip"
                           THEN "No access tokens found. Please login first."
                           ELSE ""
            IN
            /\ call' = [NoCall EXCEPT !.op = "query_variant", !.token = pre.token,
                           !.chromosome = chromosome, !.position = position,
                           !.sent = IF pre.step = "send" THEN 1 ELSE 0,
                           !.answer = answer,
                           !.response = IF pre.step = "send"
                                        THEN requests_get(answer) ELSE NoResponse,
                           !.outcome = outcome,
                           !.before = [dir |-> cmdb_dir, store |-> tokenstore],
                           !.exit = main(outcome, printed).exit,
                           !.printed = main(outcome, printed).printed]
            /\ UNCHANGED << cmdb_dir, tokenstore, granted, pagedVars, annotateVars >>

\* The command print-access-token.
PrintAccessToken ==
    LET r == print_access_token(tokenstore) IN
    /\ call' = [NoCall EXCEPT !.op = "print_access_token",
                   !.outcome = r.outcome,
                   !.before = [dir |-> cmdb_dir, store |-> tokenstore],
                   !.exit = main(r.outcome, r.printed).exit,
                   !.printed = main(r.outcome, r.printed).printed]
    /\ UNCHANGED << cmdb_dir, tokenstore, granted, pagedVars, annotateVars >>

NextClient == Login \/ PrintAccessToken \/ QueryVariant

SpecClient == InitClient /\ [][NextClient]_vars

----------------------------------------------------------------------------
(* annotate(infile)                                                        *)

InitAnnotate ==
    /\ infile \in Files
    /\ lineno = 0
    /\ stdout = << >>
    /\ served = << >>
    /\ data_version = NoKey
    /\ pass = "start"
    /\ started_with = NoFile
    /\ cmdb_dir = TRUE
    /\ tokenstore \in AnnotateStores
    /\ ClientIdle
    /\ PagedIdle

\* Lines 256-267: the credential check, load_version() and the open.
AnnotateStart ==
    /\ pass = "start"
    /\ IF ~authaccess_exists(tokenstore)
       THEN /\ pass' = "raised"
            /\ UNCHANGED data_version
       ELSE LET version == load_version(tokenstore) IN
            IF version.kind = "raise"
            THEN /\ pass' = "raised"
                 /\ UNCHANGED data_version
            ELSE /\ pass' = "running"
                 /\ data_version' = version.value
    /\ started_with' = tokenstore
    /\ UNCHANGED << infile, lineno, stdout, served, clientVars, pagedVars >>

\* Lines 269-319: the next input line is read and dealt with.
AnnotateLine ==
    /\ pass = "running"
    /\ lineno < Len(infile)
    /\ LET in_line == infile[lineno + 1] IN
       \E answer \in (IF sends_query(in_line, tokenstore)
                      THEN AnnotateAnswers ELSE {NoAnswer}) :
           LET turn == annotate_line(in_line, tokenstore, data_version, answer) IN
           /\ stdout' = stdout \o turn.wrote
           /\ served' = Append(served, turn)
           /\ lineno' = lineno + 1
           /\ pass' = IF turn.exc # "" THEN "raised" ELSE "running"
    /\ UNCHANGED << infile, data_version, started_with, clientVars, pagedVars >>

\* Line 321: the input is through.
AnnotateReturn ==
    /\ pass = "running"
    /\ lineno = Len(infile)
    /\ pass' = "done"
    /\ UNCHANGED << infile, lineno, stdout, served, data_version, started_with,
                    clientVars, pagedVars >>

NextAnnotate == AnnotateStart \/ AnnotateLine \/ AnnotateReturn

SpecAnnotate == InitAnnotate /\ [][NextAnnotate]_vars

----------------------------------------------------------------------------
(* annotate while other processes work on the credential record            *)

\* Another cmdbtools process ends a login whose canary got 201 while this
\* pass is reading its input: write_tokenstore replaces the record.
LoginElsewhere ==
    /\ pass = "running"
    /\ \E token \in Tokens :
          /\ tokenstore' = write_tokenstore(token)
          /\ tokenstore' # tokenstore
    /\ UNCHANGED << cmdb_dir, call, granted, pagedVars, annotateVars >>

\* The record file is removed while this pass is reading its input, so
\* that authaccess_exists() no longer finds it.
RecordRemoved ==
    /\ pass = "running"
    /\ authaccess_exists(tokenstore)
    /\ tokenstore' = NoFile
    /\ UNCHANGED << cmdb_dir, call, granted, pagedVars, annotateVars >>

NextAnnotateRace == NextAnnotate \/ LoginElsewhere \/ RecordRemoved

SpecAnnotateRace == InitAnnotate /\ [][NextAnnotateRace]_vars

----------------------------------------------------------------------------
(* Claims about the client commands                                        *)

\* The call just made sent its request and the server answered over HTTP.
Answered == call.sent = 1 /\ call.answer.kind = "http"

\* C1 (as claimed): the single-shot query returns the parsed body on 201,
\* returns null on 404, raises QueryError with the server's message on 403
\* and raises some other error on every other status; so null comes back
\* only on 404 and a record only on 201.
C1_StatusClassification ==
    (call.op = "query_variant" /\ Answered) =>
        LET s == call.answer.status
            o == call.outcome
        IN /\ (s = 201 => o = Return(call.answer.body))
           /\ (s = 404 => o = Return(JNull))
           /\ (s = 403 => /\ o.kind = "raise"
                          /\ o.exc = "CMDBException"
                          /\ o.message = IF call.answer.body.error = NoKey
                                         THEN "Failed to query data."
                                         ELSE call.answer.body.error)
           /\ (s \notin {201, 403, 404} =>
                   o.kind = "raise" /\ o.exc # "CMDBException")
           /\ (o = Return(JNull) => s = 404)
           /\ ((o.kind = "return" /\ o.value.t = "list") => s = 201)

\* C2 (as claimed): whatever status the server sends, the Response that
\* requests.get returns carries that status, and no exception leaves get.
C2_ResponseKeepsStatus ==
    Answered =>
        /\ call.response.exc = ""
        /\ call.response.status_code = call.answer.status

C12_DomainErrorExitsNonZero ==
    call.op # "none" =>
        /\ (call.outcome.exc = "CMDBException" =>
                /\ call.printed = call.outcome.message
                /\ call.exit # EXIT_OK)
        /\ (call.exit = EXIT_OK => call.outcome.kind = "return")

\* C17 (as claimed): read_tokenstore on an existing file returns the record
\* exactly when its access_token is a string, and on every other content,
\* the empty file create_tokenstore leaves included, raises CMDBException
\* (InvalidCredential) and nothing else.
C17_ReadFailsOnlyWithInvalidCredential ==
    (call.op = "print_access_token" /\ call.before.store.exists) =>
        LET doc == call.before.store.doc
            is_string == doc.t = "map" /\ doc.access_token \in Tokens
        IN /\ (call.outcome.kind = "return" <=> is_string)
           /\ (is_string => call.printed = doc.access_token)
           /\ (~is_string => call.outcome.exc = "CMDBException")

----------------------------------------------------------------------------
(* _query_paged(headers, url): one action per resumption step              *)

InitPaged ==
    /\ \E n \in 1..MaxPages : chain \in Chains(n)
    /\ url = 1
    /\ page_no = 1
    /\ gen = At("loop")
    /\ item = 0
    /\ cmdb_response_data = NoEnvelope
    /\ yielded = << >>
    /\ fetched = << >>
    /\ cmdb_dir = TRUE
    /\ tokenstore = File(YMap("tokA", CMDB_DATASET_VERSION))
    /\ ClientIdle
    /\ AnnotateIdle

\* Lines 174-178: what a response other than 200 ends in.
paged_failure(cmdb_response) ==
    IF cmdb_response.status_code = 400
    THEN json_get_error(cmdb_response.json)
    ELSE raise_for_status

\* Meta and header lines yielded from every envelope of format vcf.
emits_header_every_page(data, page) == data.format = "vcf"

\* Line 181: meta and header lines are yielded from this envelope.
emits_header(data, page) == data.format = "vcf" /\ page = 1

\* Lines 172-181: the loop test holds, the page is requested and classified.
Request ==
    /\ gen.at = "loop"
    /\ url # 0
    /\ \E answer \in PagedAnswers(url) :
        LET cmdb_response == requests_get(answer) IN
        /\ fetched' = Append(fetched, answer)
        /\ IF cmdb_response.exc # ""
           THEN /\ gen' = Raised(Raise(cmdb_response.exc, ""))
                /\ UNCHANGED << cmdb_response_data, item >>
           ELSE IF cmdb_response.status_code # 200
           THEN /\ gen' = Raised(paged_failure(cmdb_response))
                /\ UNCHANGED << cmdb_response_data, item >>
           ELSE /\ cmdb_response_data' = cmdb_response.json
                /\ item' = 1
                /\ gen' = IF emits_header(cmdb_response.json, page_no)
                          THEN At("meta") ELSE At("data")
    /\ UNCHANGED << chain, url, page_no, yielded, clientVars, annotateVars >>

\* Lines 182-183: yield the next meta line.
YieldMeta ==
    /\ gen.at = "meta"
    /\ item <= Len(cmdb_response_data.meta)
    /\ yielded' = Append(yielded, cmdb_response_data.meta[item])
    /\ item' = item + 1
    /\ UNCHANGED << chain, url, page_no, gen, cmdb_response_data, fetched,
                    clientVars, annotateVars >>

\* Line 185: the meta lines are through, yield the header line.
YieldHeader ==
    /\ gen.at = "meta"
    /\ item > Len(cmdb_response_data.meta)
    /\ yielded' = Append(yielded, cmdb_response_data.header)
    /\ item' = 1
    /\ gen' = At("data")
    /\ UNCHANGED << chain, url, page_no, cmdb_response_data, fetched,
                    clientVars, annotateVars >>

\* Lines 187-188: yield the next data item.
YieldData ==
    /\ gen.at = "data"
    /\ item <= Len(cmdb_response_data.data)
    /\ yielded' = Append(yielded, cmdb_response_data.data[item])
    /\ item' = item + 1
    /\ UNCHANGED << chain, url, page_no, gen, cmdb_response_data, fetched,
                    clientVars, annotateVars >>

\* The generator leaves a page for the next one with items still to yield.
Advance_before_page_end ==
    /\ gen.at = "data"
    /\ item > 1
    /\ IF cmdb_response_data.has_next
       THEN /\ url' = cmdb_response_data.next
            /\ page_no' = page_no + 1
            /\ gen' = At("loop")
       ELSE /\ gen' = Raised(Raise("KeyError", "next"))
            /\ UNCHANGED << url, page_no >>
    /\ UNCHANGED << chain, item, cmdb_response_data, yielded, fetched,
                    clientVars, annotateVars >>

\* Lines 190-191: the page is through, follow cmdb_response_data['next'].
\* The subscript raises KeyError when the envelope has no such key.
Advance ==
    /\ gen.at = "data"
    /\ item > Len(cmdb_response_data.data)
    /\ IF cmdb_response_data.has_next
       THEN /\ url' = cmdb_response_data.next
            /\ page_no' = page_no + 1
            /\ gen' = At("loop")
       ELSE /\ gen' = Raised(Raise("KeyError", "next"))
            /\ UNCHANGED << url, page_no >>
    /\ UNCHANGED << chain, item, cmdb_response_data, yielded, fetched,
                    clientVars, annotateVars >>

\* Line 172: the loop test fails and the generator ends.
Exhaust ==
    /\ gen.at = "loop"
    /\ url = 0
    /\ gen' = At("exhausted")
    /\ UNCHANGED << chain, url, page_no, item, cmdb_response_data, yielded, fetched,
                    clientVars, annotateVars >>

NextPaged ==
    Request \/ YieldMeta \/ YieldHeader \/ YieldData \/ Advance \/ Exhaust

SpecPaged == InitPaged /\ [][NextPaged]_vars

----------------------------------------------------------------------------
(* Claims about the paged query                                            *)

\* Every request so far was answered 200.
AllOK == \A i \in 1..Len(fetched) : fetched[i].kind = "http" /\ fetched[i].status = 200

IsPrefix(a, b) == Len(a) <= Len(b) /\ SubSeq(b, 1, Len(a)) = a

RECURSIVE DataUpTo(_)
DataUpTo(n) == IF n = 0 THEN << >> ELSE DataUpTo(n - 1) \o chain[n].data

\* What the claim says a fully answered query yields.
Expected ==
    (IF chain[1].format = "vcf"
     THEN chain[1].meta \o << chain[1].header >> ELSE << >>)
    \o DataUpTo(Len(chain))

\* C7: while every page is answered 200, what has been yielded is an initial
\* part of: the first envelope's meta lines, its header line (both only for
\* format vcf), then the data of page 1, page 2, ... in order; and it is all
\* of that once the generator is exhausted.
C7_YieldsPagesInOrder ==
    AllOK =>
        /\ IsPrefix(yielded, Expected)
        /\ (gen.at = "exhausted" => yielded = Expected)

\* C7 witness: an exhausted query over several pages, all of format vcf, with
\* meta lines and with data on every page.
C7_Witness ==
    /\ gen.at = "exhausted"
    /\ AllOK
    /\ Len(chain) >= 2
    /\ \A k \in 1..Len(chain) : chain[k].format = "vcf"
    /\ Len(chain[1].meta) >= 1
    /\ \A k \in 1..Len(chain) : Len(chain[k].data) >= 1
    /\ Len(yielded) >= 4

\* C8 (as claimed): a chain of N pages all answered 200, whose last envelope
\* has next null or has no next at all, ends exhausted after exactly N GETs.
C8_EndsAfterNRequests ==
    (AllOK /\ gen.at \in {"exhausted", "raised"}) =>
        /\ gen.at = "exhausted"
        /\ Len(fetched) = Len(chain)

\* C9 (as claimed): a page answered 400 ends the query with QueryError
\* carrying the server's message (or the default one), any other status but
\* 200 ends it with another error, and nothing of that page is yielded.
C9_FailedPageRaises ==
    (gen.at = "raised" /\ Len(fetched) >= 1 /\ ~AllOK
       /\ fetched[Len(fetched)].kind = "http") =>
        LET k == Len(fetched)
            answer == fetched[k]
        IN /\ (answer.status = 400 =>
                  /\ gen.exc = "CMDBException"
                  /\ gen.message = IF answer.body.error = NoKey
                                   THEN "Failed to query data."
                                   ELSE answer.body.error)
           /\ (answer.status # 400 => gen.exc # "CMDBException")
           /\ \A i \in 1..Len(yielded) : yielded[i][2] < k

\* Everything page p gives the consumer: for the first page of format vcf
\* its meta lines and its header line, and for every page its data items.
ItemsOf(p) ==
    {chain[p].data[j] : j \in 1..Len(chain[p].data)}
    \cup (IF p = 1 /\ chain[1].format = "vcf"
          THEN {chain[1].meta[j] : j \in 1..Len(chain[1].meta)} \cup {chain[1].header}
          ELSE {})

Delivered == {yielded[j] : j \in 1..Len(yielded)}

\* C19: requests are sent one page at a time, in page order: when k
\* requests have been sent, the first k - 1 were answered 200 and every
\* item of pages 1..k-1 has been yielded, also when request k has failed
\* and the error is raised; nothing of a page not yet requested has been
\* yielded, and the generator is never more than one request ahead of the
\* page it is yielding.
C19_NextPageAfterLastItem ==
    LET k == Len(fetched) IN
    /\ k <= page_no
    /\ k >= page_no - 1
    /\ (gen.at \in {"meta", "data"} => k = page_no)
    /\ \A p \in 1..(k - 1) :
          /\ fetched[p].kind = "http"
          /\ fetched[p].status = 200
          /\ ItemsOf(p) \subseteq Delivered
    /\ \A j \in 1..Len(yielded) : yielded[j][2] <= k
    /\ (gen.at = "raised" /\ k >= 1 /\ ~AllOK) =>
          \A j \in 1..Len(yielded) : yielded[j][2] < k

\* C19 witness: the request for the second page failed and the error was
\* raised after the two data items and the header of the first page had
\* been yielded.
C19_Witness ==
    /\ gen.at = "raised"
    /\ Len(fetched) = 2
    /\ ~AllOK
    /\ chain[1].format = "vcf"
    /\ Len(chain[1].data) = 2
    /\ ItemsOf(1) \subseteq Delivered
    /\ Len(yielded) >= 3

----------------------------------------------------------------------------
(* Claims about annotate                                                   *)

Range(f) == {f[i] : i \in DOMAIN f}

\* Input line i was a data line whose lookup the server answered 404.
NoMatch(i) ==
    /\ served[i].kind = "data"
    /\ served[i].sent
    /\ served[i].answer.kind = "http"
    /\ served[i].answer.status = 404

\* Input line i was a data line whose lookup the server answered 201 with a
\* record.
Matched(i) ==
    /\ served[i].kind = "data"
    /\ served[i].sent
    /\ served[i].answer.kind = "http"
    /\ served[i].answer.status = 201
    /\ served[i].answer.body.items # << >>

\* The whitespace-delimited columns of input line i.
InColumns(i) == split(infile[i])

\* The tab-delimited columns of the line written for input line i.
OutColumns(i) ==
    LET w == served[i].wrote[1] IN split_sep(SubSeq(w, 1, Len(w) - 1), "\t")

\* The key[=value] tokens of an INFO column.
InfoTokens(info) == IF info = <<".">> THEN << >> ELSE split_sep(info, ";")

KeyOf(token) == split_sep(token, "=")[1]

AnnotationKeys == {CMDB_AN, CMDB_AC, CMDB_AF, CMDB_FILTER}

\* C3 (as claimed): for a data line answered 404, the one line written is
\* the input line, character for character.
C3_UnmatchedLineVerbatim ==
    \A i \in 1..Len(served) :
        NoMatch(i) => served[i].wrote = << infile[i] >>

\* C3 (amended): for a data line answered 404, exactly one line is written:
\* the input line up to its last non-whitespace character, followed by one
\* line feed.
C3_UnmatchedLineStripped ==
    \A i \in 1..Len(served) :
        NoMatch(i) =>
            /\ Len(served[i].wrote) = 1
            /\ LET w == served[i].wrote[1]
                   in_line == infile[i]
                   n == Len(w) - 1
               IN /\ n >= 1
                  /\ w[n + 1] = "\n"
                  /\ n <= Len(in_line)
                  /\ SubSeq(w, 1, n) = SubSeq(in_line, 1, n)
                  /\ w[n] \notin Whitespace
                  /\ \A j \in (n + 1)..Len(in_line) : in_line[j] \in Whitespace

\* C3 witness: a data line ending in carriage return and line feed was
\* answered 404 and written without the carriage return.
C3_Witness ==
    \E i \in 1..Len(served) :
        /\ NoMatch(i)
        /\ Len(infile[i]) >= 2
        /\ infile[i][Len(infile[i]) - 1] = "\r"
        /\ Len(served[i].wrote) = 1
        /\ served[i].wrote[1] # infile[i]

\* C4: for a matched data line the keys of the INFO column written are in
\* increasing order with none repeated, the four annotation keys are among
\* them, and every other key of the input INFO is among them with a token the
\* input held under that key.
C4_InfoSortedAndComplete ==
    \A i \in 1..Len(served) :
        Matched(i) =>
            /\ Len(served[i].wrote) = 1
            /\ Len(OutColumns(i)) >= 8
            /\ LET tokens == split_sep(OutColumns(i)[8], ";")
                   keys == [j \in 1..Len(tokens) |-> KeyOf(tokens[j])]
                   given == InfoTokens(InColumns(i)[8])
               IN /\ \A j \in 1..(Len(keys) - 1) : StrLess(keys[j], keys[j + 1])
                  /\ AnnotationKeys \subseteq Range(keys)
                  /\ \A g \in 1..Len(given) :
                        KeyOf(given[g]) \notin AnnotationKeys =>
                            \E j \in 1..Len(tokens) :
                                /\ keys[j] = KeyOf(given[g])
                                /\ \E h \in 1..Len(given) :
                                      /\ given[h] = tokens[j]
                                      /\ KeyOf(given[h]) = keys[j]

\* C4 witness: a matched line whose input INFO held keys out of order, one
\* of them an annotation key.
C4_Witness ==
    \E i \in 1..Len(served) :
        /\ Matched(i)
        /\ Len(served[i].wrote) = 1
        /\ LET given == InfoTokens(InColumns(i)[8]) IN
           /\ Len(given) >= 3
           /\ StrLess(KeyOf(given[2]), KeyOf(given[1]))
           /\ \E g \in 1..Len(given) : KeyOf(given[g]) \in AnnotationKeys

\* C5 (as claimed): a matched line with columns after INFO is written with
\* the column that follows INFO kept after the new INFO, and a matched line
\* of exactly 8 columns is written with exactly 8 columns.
C5_RemainderKept ==
    \A i \in 1..Len(served) :
        (Matched(i) /\ Len(served[i].wrote) = 1) =>
            /\ (Len(InColumns(i)) > 8 =>
                   /\ Len(OutColumns(i)) >= 9
                   /\ OutColumns(i)[9] = InColumns(i)[9])
            /\ (Len(InColumns(i)) = 8 => Len(OutColumns(i)) = 8)

\* The classes of input lines, by their first characters.
IsMeta(l) == Len(l) >= 2 /\ l[1] = "#" /\ l[2] = "#"
IsColumnHeader(l) == ~IsMeta(l) /\ Len(l) >= 6 /\ SubSeq(l, 1, 6) = <<"#", "C", "H", "R", "O", "M">>
IsData(l) == l = << >> \/ l[1] # "#"

\* The lines of the output that are one of the four ##INFO declarations.
Synthetic ==
    {p \in 1..Len(stdout) : stdout[p] \in Range(info_declarations(data_version))}

\* C6 (as claimed, read in its favour for inputs that hold exactly one
\* column-header line): when the pass has run to the end, no input line has
\* been dropped, and the output holds one line per input line plus the four
\* ##INFO declarations, inserted once.
C6_OneLinePerInputLine ==
    (/\ pass = "done"
     /\ Cardinality({i \in 1..Len(infile) : IsColumnHeader(infile[i])}) = 1) =>
        /\ \A i \in 1..Len(infile) : served[i].wrote # << >>
        /\ Len(stdout) = Len(infile) + 4
        /\ Cardinality(Synthetic) = 4

\* C6 (amended): when the pass has run to the end, every META line and every
\* DATA line has given one output line, every COLUMN-HEADER line has given
\* five (the four declarations and itself), and every other line starting
\* with # has given none.
C6_OneLinePerClassifiedLine ==
    pass = "done" =>
        LET metas == {i \in 1..Len(infile) : IsMeta(infile[i])}
            headers == {i \in 1..Len(infile) : IsColumnHeader(infile[i])}
            datas == {i \in 1..Len(infile) : IsData(infile[i])}
        IN /\ Len(served) = Len(infile)
           /\ \A i \in metas \cup datas : Len(served[i].wrote) = 1
           /\ \A i \in headers : Len(served[i].wrote) = 5
           /\ \A i \in 1..Len(infile) \ (metas \cup headers \cup datas) :
                  served[i].wrote = << >>
           /\ Len(stdout) = Cardinality(metas) + Cardinality(datas)
                              + 5 * Cardinality(headers)
           /\ Cardinality(Synthetic) = 4 * Cardinality(headers)

\* C6 witness: a finished pass over an input holding a column header and a
\* line that starts with # and is neither META nor COLUMN-HEADER.
C6_Witness ==
    /\ pass = "done"
    /\ \E i \in 1..Len(infile) : IsColumnHeader(infile[i])
    /\ \E i \in 1..Len(infile) :
          ~IsMeta(infile[i]) /\ ~IsColumnHeader(infile[i]) /\ ~IsData(infile[i])

\* Input line i is a data line whose first eight columns annotate can read:
\* it has at least 8 whitespace-delimited fields, the second a decimal number.
Readable(i) ==
    /\ IsData(infile[i])
    /\ Len(InColumns(i)) >= 8
    /\ int_ok(InColumns(i)[2])

\* C13: the pass has dealt with the input lines one by one in input order;
\* for every data line it could read it sent exactly one point query, with
\* that line's chromosome and position and the stored token, whatever the
\* answer was, and for a META line, a COLUMN-HEADER line or any other line
\* it sent none.
C13_OneQueryPerDataLine ==
    /\ Len(served) = lineno
    /\ lineno <= Len(infile)
    /\ \A i \in 1..Len(served) :
          /\ (Readable(i) =>
                 /\ served[i].sent
                 /\ served[i].chromosome = InColumns(i)[1]
                 /\ served[i].position = int(InColumns(i)[2])
                 /\ served[i].token = tokenstore.doc.access_token
                 /\ served[i].answer \in AnnotateAnswers)
          /\ (~Readable(i) =>
                 /\ ~served[i].sent
                 /\ served[i].answer = NoAnswer)

\* C13 witness: the same data line stood twice in the input; it was looked
\* up both times, the first lookup answered 404 and the second 201.
C13_Witness ==
    /\ Len(served) = 2
    /\ infile[1] = infile[2] \/ infile[1] \o << "\n" >> = infile[2] \/ infile[1] = infile[2] \o << "\n" >>
    /\ NoMatch(1)
    /\ Matched(2)
    /\ served[1].position = served[2].position

RECURSIVE Flatten(_)
Flatten(ss) == IF ss = << >> THEN << >> ELSE Head(ss) \o Flatten(Tail(ss))

\* w is in_line cut after its last non-whitespace character, plus a line feed.
IsStripped(w, in_line) ==
    LET n == Len(w) - 1 IN
    /\ n >= 1
    /\ w[n + 1] = "\n"
    /\ n <= Len(in_line)
    /\ SubSeq(w, 1, n) = SubSeq(in_line, 1, n)
    /\ w[n] \notin Whitespace
    /\ \A j \in (n + 1)..Len(in_line) : in_line[j] \in Whitespace

\* An output line that is a ##INFO declaration for a CMDB_ key.
IsDeclaration(w) == Len(w) = 8 /\ w[3] = "INFO=<ID="

DeclaredKeys == << "CMDB_AN", "CMDB_AC", "CMDB_AF", "CMDB_FILTER" >>

\* C14: the output is what the input lines gave, line after line in input
\* order: a META line its stripped self, a COLUMN-HEADER line the four
\* declarations for CMDB_AN, CMDB_AC, CMDB_AF, CMDB_FILTER in this order,
\* each naming the version held by the credential record, directly followed
\* by its stripped self; and a declaration stands nowhere else in the output.
C14_OutputInInputOrder ==
    /\ stdout = Flatten([i \in 1..Len(served) |-> served[i].wrote])
    /\ \A i \in 1..Len(served) :
          /\ (IsMeta(infile[i]) =>
                 /\ Len(served[i].wrote) = 1
                 /\ IsStripped(served[i].wrote[1], infile[i]))
          /\ (IsData(infile[i]) =>
                 /\ Len(served[i].wrote) <= 1
                 /\ \A k \in 1..Len(served[i].wrote) :
                        ~IsDeclaration(served[i].wrote[k]))
    /\ \A p \in 1..Len(stdout) :
          /\ (IsColumnHeader(stdout[p]) =>
                 /\ p > 4
                 /\ \A k \in 1..4 :
                        /\ IsDeclaration(stdout[p - 5 + k])
                        /\ stdout[p - 5 + k][4] = DeclaredKeys[k]
                        /\ stdout[p - 5 + k][6] = tokenstore.doc.version)
          /\ (IsDeclaration(stdout[p]) =>
                 \E q \in p + 1..p + 4 :
                     /\ q <= Len(stdout)
                     /\ IsColumnHeader(stdout[q])
                     /\ stdout[p][4] = DeclaredKeys[4 - (q - p) + 1])
    /\ \A i \in 1..Len(served) :
          IsColumnHeader(infile[i]) =>
              /\ Len(served[i].wrote) = 5
              /\ IsStripped(served[i].wrote[5], infile[i])

\* C14 witness: a META line and a COLUMN-HEADER line were read, in this
\* order, from a record holding the version of an earlier release; the
\* output holds the META line, the four declarations and the header.
C14_Witness ==
    /\ Len(served) = 2
    /\ IsMeta(infile[1])
    /\ IsColumnHeader(infile[2])
    /\ Len(stdout) = 6
    /\ tokenstore.doc.version = EARLIER_DATASET_VERSION
    /\ stdout[2][6] = EARLIER_DATASET_VERSION

\* The token annotate builds for an annotation key from a record of the
\* response.
Built(key, variant) ==
    key \o << "=" >> \o
    format(IF key = CMDB_AN THEN variant.allele_num
           ELSE IF key = CMDB_AC THEN variant.allele_count
           ELSE IF key = CMDB_AF THEN variant.allele_freq
           ELSE variant.filter_status)

\* C15: for a matched data line, the INFO column written holds under each
\* of CMDB_AN, CMDB_AC, CMDB_AF and CMDB_FILTER exactly one token, the one
\* built from the first record of this lookup's response, whatever the
\* input INFO held under that key.
C15_AnnotationFromResponse ==
    \A i \in 1..Len(served) :
        Matched(i) =>
            /\ Len(served[i].wrote) = 1
            /\ Len(OutColumns(i)) >= 8
            /\ LET tokens == split_sep(OutColumns(i)[8], ";")
                   variant == served[i].answer.body.items[1]
               IN \A key \in AnnotationKeys :
                      /\ Cardinality({j \in 1..Len(tokens) : KeyOf(tokens[j]) = key}) = 1
                      /\ \A j \in 1..Len(tokens) :
                            KeyOf(tokens[j]) = key => tokens[j] = Built(key, variant)

\* C15 witness: a matched line whose input INFO held a CMDB_AF token other
\* than the one built from the response, and the line written holds the
\* built one and not the input's.
C15_Witness ==
    \E i \in 1..Len(served) :
        /\ Matched(i)
        /\ Len(served[i].wrote) = 1
        /\ LET given == InfoTokens(InColumns(i)[8])
               tokens == split_sep(OutColumns(i)[8], ";")
               variant == served[i].answer.body.items[1]
           IN /\ \E g \in 1..Len(given) :
                    /\ KeyOf(given[g]) = CMDB_AF
                    /\ given[g] # Built(CMDB_AF, variant)
                    /\ given[g] \notin Range(tokens)
              /\ Built(CMDB_AF, variant) \in Range(tokens)

\* Input line i is a data line with fewer than 8 whitespace-delimited fields.
Short(i) == IsData(infile[i]) /\ Len(InColumns(i)) < 8

\* C16: a data line with fewer than 8 whitespace-delimited fields ends the
\* pass with an exception at that line: it is the last line taken from the
\* input, no lookup was sent for it, nothing was written for it, and the
\* output is what the lines before it gave, each of them written in order.
C16_ShortLineEndsPass ==
    \A i \in 1..Len(served) :
        Short(i) =>
            /\ pass = "raised"
            /\ served[i].exc \in {"IndexError", "ValueError"}
            /\ i = Len(served)
            /\ lineno = i
            /\ ~served[i].sent
            /\ served[i].answer = NoAnswer
            /\ served[i].wrote = << >>
            /\ stdout = Flatten([j \in 1..(i - 1) |-> served[j].wrote])
            /\ \A j \in 1..(i - 1) :
                  /\ served[j].exc = ""
                  /\ (IsMeta(infile[j]) \/ IsData(infile[j])) =>
                         Len(served[j].wrote) = 1
                  /\ IsColumnHeader(infile[j]) => Len(served[j].wrote) = 5

\* C16 witness: the second input line had three fields; the pass ended
\* there without a lookup for it, the first line's output already written.
C16_Witness ==
    /\ Len(infile) = 2
    /\ Len(served) = 2
    /\ IsData(infile[1])
    /\ Short(2)
    /\ Len(InColumns(2)) = 3
    /\ pass = "raised"
    /\ Len(stdout) = 1
    /\ ~served[2].sent

\* What annotate does with the line it wrote for input line i when that
\* line is its input and the server gives the answer it gave then.
Again(i) == annotate_data(served[i].wrote[1], tokenstore, served[i].answer)

\* C20: for a data line with at least 8 fields for which a line was
\* written, matched or not, annotate given the written line asks the server
\* for the same chromosome and position and, the answer being the same,
\* writes that very line again.
C20_DataLineIdempotent ==
    \A i \in 1..Len(served) :
        (/\ IsData(infile[i])
         /\ Len(InColumns(i)) >= 8
         /\ Len(served[i].wrote) = 1) =>
            /\ Again(i).sent = served[i].sent
            /\ Again(i).chromosome = served[i].chromosome
            /\ Again(i).position = served[i].position
            /\ Again(i).exc = ""
            /\ Again(i).wrote = served[i].wrote

\* C20 witness: a matched line of more than 8 columns, written other than
\* it was read, and written again unchanged when read back.
C20_Witness ==
    \E i \in 1..Len(served) :
        /\ Matched(i)
        /\ Len(InColumns(i)) > 8
        /\ Len(served[i].wrote) = 1
        /\ served[i].wrote[1] # infile[i]
        /\ Again(i).wrote = served[i].wrote

\* C18 (as claimed): every point query of a pass carries the access token
\* the record held when the pass started, and every data line annotate can
\* read is looked up, whatever is done to the record while the input is
\* being read.
C18_TokenReadOnceAtStart ==
    \A i \in 1..Len(served) :
        /\ (served[i].sent =>
               served[i].token = started_with.doc.access_token)
        /\ (Readable(i) => served[i].sent)

====
